---- MODULE Spec2Model ----
(***************************************************************************)
(* Asset-management server (src/index.js): the asset workflow handlers     *)
(* (POST /asset-requests, POST /assigned-assets, PATCH                      *)
(* /approve-employee-requests/:id, PATCH /reject-employee-requests/:id)     *)
(* and the package fulfilment handler (POST /payment-success) over the      *)
(* MongoDB collections they read and write.                                 *)
(*                                                                          *)
(* Spec runs the handlers one at a time: one action is one inbound HTTP     *)
(* request, from the role middleware to the response.                       *)
(***************************************************************************)
EXTENDS Integers, Sequences, FiniteSets, Bags

VARIABLES
    usersCollection,                 \* email -> account document
    assetsCollection,                \* asset _id -> asset document
    requestsCollection,              \* sequence of request documents, _id = position
    assignedAssetsCollection,        \* bag of assignment documents
    employeeAffiliationsCollection,  \* bag of affiliation documents
    paymentsCollection,              \* bag of payment documents
    res,                             \* the response sent for the last inbound request
    successCount,                    \* history: hrEmail -> number of 2xx approve/assign calls charged to it
    linked,                          \* history: the successful approve/assign calls
    inFlight                         \* call -> position and locals of a handler running step by step

collections == << usersCollection, assetsCollection, requestsCollection,
                  assignedAssetsCollection, employeeAffiliationsCollection,
                  paymentsCollection >>

history == << successCount, linked >>

vars == << usersCollection, assetsCollection, requestsCollection,
           assignedAssetsCollection, employeeAffiliationsCollection,
           paymentsCollection, res, successCount, linked, inFlight >>

----------------------------------------------------------------------------
(* Bounds of the model *)

\* packageLimit of the HR account h1 in the initial state
MaxLimit == 2

\* largest availableQuantity of an asset in the initial state
MaxQuantity == 1

\* number of request documents the request ledger may hold under Spec
MaxRequests == 1

\* number of request documents the request ledger may hold under SpecLedger
MaxLedgerRequests == 2

\* number of inbound requests the server handles at the same time
MaxCalls == 2

----------------------------------------------------------------------------
(* The universe of identifiers *)

HrEmails == {"h1", "h2"}

EmployeeEmails == {"e1", "e2"}

\* an email no account was ever created for
NoAccountEmail == "nobody"

Emails == HrEmails \cup EmployeeEmails \cup {NoAccountEmail}

\* the verified emails (req.tokenEmail) the inbound requests carry: an HR, the
\* employees, and a principal without an account
TokenEmails == {"h1", "e1", "e2", NoAccountEmail}

\* the callers of the HR routes: an HR, an employee, a principal without account
HrRouteTokenEmails == {"h1", "e1", NoAccountEmail}

AssetIds == {"a1", "a2"}

\* a well-formed ObjectId string that names no asset document
MissingAssetId == "a0"

BodyAssetIds == AssetIds \cup {MissingAssetId}

\* the :id route parameters tried: the ledger's ids and one id of no document
RequestIds(capacity) == 1..(capacity + 1)

\* what findOne resolves to when no document matches
Null == [null |-> TRUE]

\* a document matches a filter { field: value, ... } when it carries every
\* value of the filter
Matches(doc, filter) == \A k \in DOMAIN filter : doc[k] = filter[k]

\* collection.findOne(filter) on a bag of documents: a matching document, or
\* null (the handlers only test the result of these lookups for null)
FindOne(coll, filter) ==
    LET matching == {d \in BagToSet(coll) : Matches(d, filter)}
    IN  IF matching = {} THEN Null ELSE CHOOSE d \in matching : TRUE

\* collection.insertOne(doc)
InsertOne(coll, doc) == coll (+) SetToBag({doc})

UsersFindOne(email) ==
    IF email \in DOMAIN usersCollection THEN usersCollection[email] ELSE Null

AssetsFindOne(id) ==
    IF id \in DOMAIN assetsCollection THEN assetsCollection[id] ELSE Null

RequestsFindOneById(id) ==
    IF id \in 1..Len(requestsCollection) THEN requestsCollection[id] ELSE Null

\* requestsCollection.findOne(filter): the first matching request, or null
RequestsFindOne(filter) ==
    LET matching == {i \in 1..Len(requestsCollection) :
                        Matches(requestsCollection[i], filter)}
    IN  IF matching = {} THEN Null
        ELSE requestsCollection[CHOOSE i \in matching :
                                    \A j \in matching : i <= j]

\* { $set: fields } applied to one document
Set(doc, fields) ==
    [k \in DOMAIN doc |-> IF k \in DOMAIN fields THEN fields[k] ELSE doc[k]]

\* usersCollection.updateOne({ email }, { $set: fields }): no match, no write
UsersUpdateOne(email, fields) ==
    IF email \in DOMAIN usersCollection
    THEN [usersCollection EXCEPT ![email] = Set(@, fields)]
    ELSE usersCollection

Respond(op, status, message) ==
    res' = [op |-> op, status |-> status, message |-> message]

----------------------------------------------------------------------------
(* Role middleware *)

verifyEmployee(email) ==
    LET user == UsersFindOne(email)
    IN  ~(user = Null \/ user.role # "employee")

\* an HR guard that lets every account holder through
verifyHR_AnyAccount(email) == UsersFindOne(email) # Null

verifyHR(email) ==
    LET user == UsersFindOne(email)
    IN  ~(user = Null \/ user.role # "hr")

----------------------------------------------------------------------------
(* Shared pieces of POST /assigned-assets and PATCH /approve-employee-requests *)

\* an affiliation lookup that never finds the pair
existingEmployeeAffiliation_Skipped(employeeEmail, hrEmail) == Null

\* employeeAffiliationsCollection.findOne({ employeeEmail, hrEmail })
existingEmployeeAffiliation(employeeEmail, hrEmail) ==
    FindOne(employeeAffiliationsCollection,
            [employeeEmail |-> employeeEmail, hrEmail |-> hrEmail])

\* a limit check that never refuses
LimitReached_Never(hr) == FALSE

\* if (hr.packageLimit === 0) return res.status(409)
LimitReached(hr) == hr.packageLimit = 0

\* a seat charged twice
updatePackageLimit_Twice(hr) == hr.packageLimit - 2

\* const updatePackageLimit = hr.packageLimit - 1
updatePackageLimit(hr) == hr.packageLimit - 1

\* a head count that forgets new employees
updateCurrentEmployees_Never(hr, affiliation) == hr.currentEmployees

\* a head count that counts every link
updateCurrentEmployees_Always(hr, affiliation) == hr.currentEmployees + 1

\* let updateCurrentEmployees = hr.currentEmployees;
\* if (!existingEmployeeAffiliation) updateCurrentEmployees = hr.currentEmployees + 1
updateCurrentEmployees(hr, affiliation) ==
    IF affiliation = Null THEN hr.currentEmployees + 1 ELSE hr.currentEmployees

\* const updateHR = { $set: { packageLimit, currentEmployees } }
updateHR(hr, affiliation) ==
    [packageLimit |-> updatePackageLimit(hr),
     currentEmployees |-> updateCurrentEmployees(hr, affiliation)]

\* the affiliation document both handlers insert for a new employee
employeeAffiliationData(employeeEmail, hrEmail) ==
    [employeeEmail |-> employeeEmail, hrEmail |-> hrEmail, status |-> "active"]

\* history of a call that ended in a 2xx response
RecordSuccess(op, employeeEmail, hrEmail, assetId) ==
    /\ successCount' = [successCount EXCEPT ![hrEmail] = @ + 1]
    /\ linked' = linked \cup {[op |-> op, employeeEmail |-> employeeEmail,
                               hrEmail |-> hrEmail, assetId |-> assetId]}

----------------------------------------------------------------------------
(* POST /asset-requests (submitAssetRequest) *)

\* requestsCollection.findOne({ assetId: requestData.assetId, requesterEmail: req.tokenEmail })
existingRequest(assetId, tokenEmail) ==
    RequestsFindOne([assetId |-> assetId, requesterEmail |-> tokenEmail])

\* req.body with requestDate, approvalDate and requestStatus overwritten
requestData(body) ==
    [assetId |-> body.assetId, requesterEmail |-> body.requesterEmail,
     hrEmail |-> body.hrEmail, requestStatus |-> "pending",
     approvalDate |-> "null"]

SubmitBodies ==
    [assetId : AssetIds, requesterEmail : EmployeeEmails, hrEmail : HrEmails]

\* capacity bounds the ledger: the insertOne is taken only below it
SubmitAssetRequest(tokenEmail, body, capacity) ==
    /\ UNCHANGED << inFlight, usersCollection, assetsCollection,
                    assignedAssetsCollection,
                    employeeAffiliationsCollection, paymentsCollection, history >>
    /\ IF ~verifyEmployee(tokenEmail)
       THEN /\ Respond("submitAssetRequest", 403, "Only employee actions")
            /\ UNCHANGED requestsCollection
       ELSE IF existingRequest(body.assetId, tokenEmail) # Null
       THEN /\ Respond("submitAssetRequest", 409, "Already Requested")
            /\ UNCHANGED requestsCollection
       ELSE /\ Len(requestsCollection) < capacity
            /\ requestsCollection' = Append(requestsCollection, requestData(body))
            /\ Respond("submitAssetRequest", 201, "result")

----------------------------------------------------------------------------
(* POST /assigned-assets (assignDirectly) *)

\* assignedAssetsCollection.findOne({ employeeEmail, assetId })
existingAssets(employeeEmail, assetId) ==
    FindOne(assignedAssetsCollection,
            [employeeEmail |-> employeeEmail, assetId |-> assetId])

\* req.body, inserted as the assignment document
assignmentData(body) ==
    [assetId |-> body.assetId, employeeEmail |-> body.employeeEmail,
     hrEmail |-> body.hrEmail, status |-> body.status]

AssignBodies ==
    [assetId : AssetIds, employeeEmail : EmployeeEmails,
     hrEmail : HrEmails \cup {NoAccountEmail}, status : {"assigned"}]

AssignDirectly(tokenEmail, body) ==
    LET employeeEmail == body.employeeEmail
        assetId == body.assetId
        hrEmail == body.hrEmail
        affiliation == existingEmployeeAffiliation(employeeEmail, hrEmail)
        hr == UsersFindOne(hrEmail)
        op == "assignDirectly"
    IN  /\ UNCHANGED << inFlight, assetsCollection, requestsCollection,
                        paymentsCollection >>
        /\ IF ~verifyHR(tokenEmail)
           THEN /\ Respond(op, 403, "Only HR actions")
                /\ UNCHANGED << usersCollection, assignedAssetsCollection,
                                employeeAffiliationsCollection, history >>
           ELSE IF existingAssets(employeeEmail, assetId) # Null
           THEN /\ Respond(op, 409, "Asset Already Assigned")
                /\ UNCHANGED << usersCollection, assignedAssetsCollection,
                                employeeAffiliationsCollection, history >>
           ELSE IF hr = Null
           \* hr.packageLimit on null throws a TypeError: the catch block answers
           THEN /\ Respond(op, 500, "Internal Server Error")
                /\ UNCHANGED << usersCollection, assignedAssetsCollection,
                                employeeAffiliationsCollection, history >>
           ELSE IF LimitReached(hr)
           THEN /\ Respond(op, 409, "Your package limit has been reached")
                /\ UNCHANGED << usersCollection, assignedAssetsCollection,
                                employeeAffiliationsCollection, history >>
           ELSE /\ usersCollection' =
                       UsersUpdateOne(hrEmail, updateHR(hr, affiliation))
                /\ assignedAssetsCollection' =
                       InsertOne(assignedAssetsCollection, assignmentData(body))
                /\ employeeAffiliationsCollection' =
                       IF affiliation = Null
                       THEN InsertOne(employeeAffiliationsCollection,
                                   employeeAffiliationData(employeeEmail, hrEmail))
                       ELSE employeeAffiliationsCollection
                /\ Respond(op, 201, "result")
                /\ RecordSuccess(op, employeeEmail, hrEmail, assetId)

----------------------------------------------------------------------------
(* PATCH /approve-employee-requests/:id (approveRequest) *)

Statuses == {"pending", "approved", "rejected"}

\* const latestQuantity = asset.availableQuantity - 1
latestQuantity(asset) == asset.availableQuantity - 1

\* an assignment lookup that never finds the pair
existingAssignedAssetCollection_Skipped(assetId, employeeEmail) == Null

\* assignedAssetsCollection.findOne({ assetId, employeeEmail, status: "assigned" })
existingAssignedAssetCollection(assetId, employeeEmail) ==
    FindOne(assignedAssetsCollection,
            [assetId |-> assetId, employeeEmail |-> employeeEmail,
             status |-> "assigned"])

\* if (request.requestStatus === "approved") return res.status(409)
AlreadyApproved(request) == request.requestStatus = "approved"

\* the assignment document built from the asset and the request
assignedAssetListData(assetId, request) ==
    [assetId |-> assetId, employeeEmail |-> request.requesterEmail,
     hrEmail |-> request.hrEmail, status |-> "assigned"]

ApproveBodies == [requestStatus : Statuses, assetId : BodyAssetIds]

ApproveRequest(tokenEmail, id, body) ==
    LET op == "approveRequest"
        assetId == body.assetId
        asset == AssetsFindOne(assetId)
        request == RequestsFindOneById(id)
        hr == IF request = Null THEN Null ELSE UsersFindOne(request.hrEmail)
        affiliation == existingEmployeeAffiliation(request.requesterEmail,
                                                   request.hrEmail)
        Refuse(status, message) ==
            /\ Respond(op, status, message)
            /\ UNCHANGED << usersCollection, assetsCollection,
                            requestsCollection, assignedAssetsCollection,
                            employeeAffiliationsCollection, history >>
    IN  /\ UNCHANGED << inFlight, paymentsCollection >>
        /\ IF ~verifyHR(tokenEmail)
           THEN Refuse(403, "Only HR actions")
           ELSE IF asset = Null
           \* asset.availableQuantity on null throws a TypeError
           THEN Refuse(500, "Internal Server Error")
           ELSE IF request = Null
           THEN Refuse(404, "Request Not Found")
           ELSE IF AlreadyApproved(request)
           THEN Refuse(409, "Request Already Approved")
           ELSE IF existingAssignedAssetCollection(assetId,
                                                   request.requesterEmail) # Null
           THEN Refuse(409, "Already Assigned")
           ELSE IF hr = Null
           \* hr.packageLimit on null throws a TypeError
           THEN Refuse(500, "Internal Server Error")
           ELSE IF LimitReached(hr)
           THEN Refuse(409, "Your Package has been Finished")
           ELSE /\ usersCollection' =
                       UsersUpdateOne(request.hrEmail, updateHR(hr, affiliation))
                /\ assetsCollection' =
                       [assetsCollection EXCEPT
                           ![assetId].availableQuantity = latestQuantity(asset)]
                /\ assignedAssetsCollection' =
                       InsertOne(assignedAssetsCollection,
                              assignedAssetListData(assetId, request))
                /\ requestsCollection' =
                       [requestsCollection EXCEPT
                           ![id] = Set(@, [requestStatus |-> body.requestStatus,
                                           approvalDate |-> "now"])]
                /\ employeeAffiliationsCollection' =
                       IF affiliation = Null
                       THEN InsertOne(employeeAffiliationsCollection,
                                   employeeAffiliationData(request.requesterEmail,
                                                           request.hrEmail))
                       ELSE employeeAffiliationsCollection
                /\ Respond(op, 200, "result")
                /\ RecordSuccess(op, request.requesterEmail, request.hrEmail,
                                 assetId)

----------------------------------------------------------------------------
(* PATCH /reject-employee-requests/:id (rejectRequest) *)

\* if (existingRequest.requestStatus !== "pending") return res.status(409)
NotPending(request) == request.requestStatus # "pending"

RejectBodies == [requestStatus : Statuses]

\* a rejectRequest that stores the status before it refuses
RejectRequest_WritesFirst(tokenEmail, id, body) ==
    LET op == "rejectRequest"
        request == RequestsFindOneById(id)
    IN  /\ UNCHANGED << inFlight, usersCollection, assetsCollection,
                        assignedAssetsCollection,
                        employeeAffiliationsCollection, paymentsCollection,
                        history >>
        /\ IF ~verifyHR(tokenEmail)
           THEN Respond(op, 403, "Only HR actions") /\ UNCHANGED requestsCollection
           ELSE IF request = Null
           THEN Respond(op, 404, "Request Not Found") /\ UNCHANGED requestsCollection
           ELSE /\ requestsCollection' =
                       [requestsCollection EXCEPT
                           ![id] = Set(@, [requestStatus |-> body.requestStatus])]
                /\ IF NotPending(request)
                   THEN Respond(op, 409, "Already Processed")
                   ELSE Respond(op, 200, "result")

RejectRequest(tokenEmail, id, body) ==
    LET op == "rejectRequest"
        request == RequestsFindOneById(id)
    IN  /\ UNCHANGED << inFlight, usersCollection, assetsCollection,
                        assignedAssetsCollection,
                        employeeAffiliationsCollection, paymentsCollection,
                        history >>
        /\ IF ~verifyHR(tokenEmail)
           THEN Respond(op, 403, "Only HR actions") /\ UNCHANGED requestsCollection
           ELSE IF request = Null
           THEN Respond(op, 404, "Request Not Found") /\ UNCHANGED requestsCollection
           ELSE IF NotPending(request)
           THEN Respond(op, 409, "Already Processed") /\ UNCHANGED requestsCollection
           ELSE /\ requestsCollection' =
                       [requestsCollection EXCEPT
                           ![id] = Set(@, [requestStatus |-> body.requestStatus])]
                /\ Respond(op, 200, "result")

----------------------------------------------------------------------------
(* POST /payment-success (reconcilePayment) *)

\* the read-only package catalogue
packagesCollection ==
    [id \in {"p1"} |-> [name |-> "Standard", employeeLimit |-> 1]]

\* the strings new ObjectId(...) accepts as a package id (24 hex characters);
\* on any other string the constructor throws
PackageObjectIds == {"p1", "p0"}

\* a metadata.packageId that is no ObjectId string
MalformedPackageId == "basic"

PackagesFindOne(id) ==
    IF id \in DOMAIN packagesCollection THEN packagesCollection[id] ELSE Null

\* the checkout sessions the payment service holds; the metadata is what the
\* client sent to POST /create-checkout-session
StripeSessions ==
    [cs1 |-> [payment_status |-> "paid", customer_email |-> "h1",
              payment_intent |-> "pi1",
              metadata |-> [packageId |-> "p1", employeeLimit |-> 1]],
     cs2 |-> [payment_status |-> "paid", customer_email |-> "h1",
              payment_intent |-> "pi2",
              metadata |-> [packageId |-> "p1", employeeLimit |-> 2]],
     cs3 |-> [payment_status |-> "unpaid", customer_email |-> "h1",
              payment_intent |-> "null",
              metadata |-> [packageId |-> "p1", employeeLimit |-> 1]],
     cs4 |-> [payment_status |-> "paid", customer_email |-> "h2",
              payment_intent |-> "pi4",
              metadata |-> [packageId |-> "p0", employeeLimit |-> 1]],
     cs5 |-> [payment_status |-> "paid", customer_email |-> NoAccountEmail,
              payment_intent |-> "pi5",
              metadata |-> [packageId |-> "p1", employeeLimit |-> 1]],
     cs6 |-> [payment_status |-> "unpaid", customer_email |-> "h1",
              payment_intent |-> "null",
              metadata |-> [packageId |-> MalformedPackageId,
                            employeeLimit |-> 1]]]

\* a session id the payment service cannot resolve
InvalidSessionId == "cs0"

SessionIds == DOMAIN StripeSessions \cup {InvalidSessionId}

\* a replay check that never finds the payment
existingPayment_Skipped(session) == Null

\* paymentsCollection.findOne({ transitionId: session.payment_intent })
existingPayment(session) ==
    FindOne(paymentsCollection, [transitionId |-> session.payment_intent])

orderInfo(session) ==
    [hrEmail |-> session.customer_email,
     transitionId |-> session.payment_intent,
     employeeLimit |-> session.metadata.employeeLimit,
     status |-> "completed"]

\* const increaseLimit = hr.packageLimit + Number(session.metadata.employeeLimit)
increaseLimit(hr, session) == hr.packageLimit + session.metadata.employeeLimit

ReconcilePayment(tokenEmail, sessionId) ==
    LET op == "reconcilePayment"
        session == StripeSessions[sessionId]
        hr == UsersFindOne(session.customer_email)
        packageData == PackagesFindOne(session.metadata.packageId)
    IN  /\ UNCHANGED << inFlight, assetsCollection, requestsCollection,
                        assignedAssetsCollection,
                        employeeAffiliationsCollection, history >>
        /\ IF ~verifyHR(tokenEmail)
           THEN /\ Respond(op, 403, "Only HR actions")
                /\ UNCHANGED << usersCollection, paymentsCollection >>
           ELSE IF sessionId \notin DOMAIN StripeSessions
           \* stripe.checkout.sessions.retrieve rejects: the catch block answers
           THEN /\ Respond(op, 500, "Internal Server Error")
                /\ UNCHANGED << usersCollection, paymentsCollection >>
           ELSE IF session.metadata.packageId \notin PackageObjectIds
           \* new ObjectId(session.metadata.packageId) throws
           THEN /\ Respond(op, 500, "Internal Server Error")
                /\ UNCHANGED << usersCollection, paymentsCollection >>
           ELSE IF session.payment_status = "paid" /\ packageData # Null
           THEN IF existingPayment(session) # Null
                THEN /\ Respond(op, 200, "Payment already recorded")
                     /\ UNCHANGED << usersCollection, paymentsCollection >>
                ELSE /\ paymentsCollection' =
                            InsertOne(paymentsCollection, orderInfo(session))
                     /\ IF hr = Null
                        \* hr.packageLimit on null throws after the insert
                        THEN /\ Respond(op, 500, "Internal Server Error")
                             /\ UNCHANGED usersCollection
                        ELSE /\ usersCollection' =
                                    UsersUpdateOne(session.customer_email,
                                        [packageLimit |-> increaseLimit(hr, session)])
                             /\ Respond(op, 200, "orderId")
           ELSE /\ Respond(op, 200, "transitionId")
                /\ UNCHANGED << usersCollection, paymentsCollection >>

----------------------------------------------------------------------------
(* The handlers run one at a time *)

\* the inbound requests handled at the same time
Calls == 1..MaxCalls

\* a call no handler is running for
Idle == [pc |-> "idle"]

\* packageLimit of each account when the model starts
InitialPackageLimit ==
    [email \in HrEmails \cup EmployeeEmails |->
        IF email = "h1" THEN MaxLimit ELSE IF email = "h2" THEN 1 ELSE 0]

Init ==
    /\ usersCollection =
           [email \in HrEmails \cup EmployeeEmails |->
               [role |-> IF email \in HrEmails THEN "hr" ELSE "employee",
                packageLimit |-> InitialPackageLimit[email],
                currentEmployees |-> 0]]
    /\ assetsCollection =
           [id \in AssetIds |->
               [availableQuantity |-> IF id = "a1" THEN MaxQuantity ELSE 0,
                hrEmail |-> "h1"]]
    /\ requestsCollection = << >>
    /\ assignedAssetsCollection = EmptyBag
    /\ employeeAffiliationsCollection = EmptyBag
    /\ paymentsCollection = EmptyBag
    /\ res = [op |-> "none", status |-> 0, message |-> "none"]
    /\ successCount = [email \in Emails |-> 0]
    /\ linked = {}
    /\ inFlight = [call \in Calls |-> Idle]

\* the sessions POST /payment-success is called with under Spec
SpecSessionIds == {"cs1", "cs3", "cs4", InvalidSessionId}

Submit ==
    \E tokenEmail \in TokenEmails, body \in SubmitBodies :
        SubmitAssetRequest(tokenEmail, body, MaxRequests)

Assign ==
    \E tokenEmail \in HrRouteTokenEmails, body \in AssignBodies :
        AssignDirectly(tokenEmail, body)

Approve ==
    \E tokenEmail \in HrRouteTokenEmails, id \in RequestIds(MaxRequests),
       body \in ApproveBodies :
        ApproveRequest(tokenEmail, id, body)

Reject ==
    \E tokenEmail \in HrRouteTokenEmails, id \in RequestIds(MaxRequests),
       body \in RejectBodies :
        RejectRequest(tokenEmail, id, body)

Reconcile ==
    \E tokenEmail \in HrRouteTokenEmails, sessionId \in SpecSessionIds :
        ReconcilePayment(tokenEmail, sessionId)

Next == Submit \/ Assign \/ Approve \/ Reject \/ Reconcile

Spec == Init /\ [][Next]_vars

\* The request ledger with room for a second request: the employees file
\* requests, the HR approves and rejects them
SubmitLedger ==
    \E tokenEmail \in TokenEmails, body \in SubmitBodies :
        SubmitAssetRequest(tokenEmail, body, MaxLedgerRequests)

ApproveLedger ==
    \E tokenEmail \in HrRouteTokenEmails, id \in RequestIds(MaxLedgerRequests),
       body \in ApproveBodies :
        ApproveRequest(tokenEmail, id, body)

RejectLedger ==
    \E tokenEmail \in HrRouteTokenEmails, id \in RequestIds(MaxLedgerRequests),
       body \in RejectBodies :
        RejectRequest(tokenEmail, id, body)

NextLedger == SubmitLedger \/ ApproveLedger \/ RejectLedger

SpecLedger == Init /\ [][NextLedger]_vars

\* Package fulfilment over every checkout session, with direct assignments
\* spending the seats in between
ReconcileAny ==
    \E tokenEmail \in HrRouteTokenEmails, sessionId \in SessionIds :
        ReconcilePayment(tokenEmail, sessionId)

NextPayment == ReconcileAny \/ Assign

SpecPayment == Init /\ [][NextPayment]_vars

----------------------------------------------------------------------------
(* Counting documents *)

\* collection.countDocuments(filter)
CountDocuments(coll, filter) ==
    LET matching == {d \in BagToSet(coll) : Matches(d, filter)}
    IN  BagCardinality([d \in matching |-> coll[d]])

\* Assignment documents with status assigned for the pair
AssignedCount(assetId, employeeEmail) ==
    CountDocuments(assignedAssetsCollection,
                   [assetId |-> assetId, employeeEmail |-> employeeEmail,
                    status |-> "assigned"])

\* Affiliation documents for the pair
AffiliationCount(employeeEmail, hrEmail) ==
    CountDocuments(employeeAffiliationsCollection,
                   [employeeEmail |-> employeeEmail, hrEmail |-> hrEmail])

\* the distinct employees with an active Affiliation to the HR
ActiveEmployees(hrEmail) ==
    {d.employeeEmail : d \in {x \in BagToSet(employeeAffiliationsCollection) :
                                 x.hrEmail = hrEmail /\ x.status = "active"}}

\* the successful approve/assign calls that linked the pair
Links(employeeEmail, hrEmail) ==
    {l \in linked : l.employeeEmail = employeeEmail /\ l.hrEmail = hrEmail}

LimitReachedMessages ==
    {"Your package limit has been reached", "Your Package has been Finished"}

----------------------------------------------------------------------------
(* Claims *)

\* C1 (as claimed): every asset's availableQuantity is >= 0 in every state
\* reached by submitAssetRequest, approveRequest, rejectRequest and
\* assignDirectly, in particular after approveRequest on an asset whose
\* availableQuantity is 0.
C1_QuantityNeverNegative ==
    \A id \in DOMAIN assetsCollection :
        assetsCollection[id].availableQuantity >= 0

\* C2: no HR's packageLimit is negative; an assignDirectly or approveRequest
\* call charged to an HR whose packageLimit is 0 changes no collection, and when
\* it passes the validations that come before the limit check it is answered
\* 409 limit-reached.
C2_AssignRefused(tokenEmail, body) ==
    /\ UNCHANGED << collections, history >>
    /\ res'.status \in {403, 409}
    /\ (/\ verifyHR(tokenEmail)
        /\ existingAssets(body.employeeEmail, body.assetId) = Null)
       => (res'.status = 409 /\ res'.message \in LimitReachedMessages)

C2_ApproveRefused(tokenEmail, id, body) ==
    /\ UNCHANGED << collections, history >>
    /\ res'.status \in {403, 409, 500}
    /\ (/\ verifyHR(tokenEmail)
        /\ AssetsFindOne(body.assetId) # Null
        /\ requestsCollection[id].requestStatus # "approved"
        /\ AssignedCount(body.assetId, requestsCollection[id].requesterEmail) = 0)
       => (res'.status = 409 /\ res'.message \in LimitReachedMessages)

C2_PackageLimitNeverNegative ==
    /\ \A email \in DOMAIN usersCollection :
           usersCollection[email].packageLimit >= 0
    /\ \A tokenEmail \in HrRouteTokenEmails, body \in AssignBodies :
           LET hr == UsersFindOne(body.hrEmail)
           IN  (hr # Null /\ hr.packageLimit = 0)
               => ~ENABLED (/\ AssignDirectly(tokenEmail, body)
                            /\ ~C2_AssignRefused(tokenEmail, body))
    /\ \A tokenEmail \in HrRouteTokenEmails, id \in 1..Len(requestsCollection),
          body \in ApproveBodies :
           LET hr == UsersFindOne(requestsCollection[id].hrEmail)
           IN  (hr # Null /\ hr.packageLimit = 0)
               => ~ENABLED (/\ ApproveRequest(tokenEmail, id, body)
                            /\ ~C2_ApproveRefused(tokenEmail, id, body))

\* C2 witness: an HR whose packageLimit is 0 was refused an approval
C2_Witness ==
    /\ res.op = "approveRequest"
    /\ res.message \in LimitReachedMessages
    /\ \E email \in HrEmails : usersCollection[email].packageLimit = 0

\* C3: for every (asset, employee) pair at most one Assignment document with
\* status assigned exists.
C3_OneAssignedPerPair ==
    \A assetId \in BodyAssetIds, employeeEmail \in EmployeeEmails :
        AssignedCount(assetId, employeeEmail) <= 1

\* C3 witness: an approval was refused because the pair, assigned directly
\* before, already holds its one assigned Assignment
C3_Witness ==
    /\ res.op = "approveRequest"
    /\ res.message = "Already Assigned"
    /\ \E l \in linked :
           /\ l.op = "assignDirectly"
           /\ AssignedCount(l.assetId, l.employeeEmail) = 1

\* C4: for every (employee, HR) pair at most one Affiliation document exists.
C4_OneAffiliationPerPair ==
    \A employeeEmail \in EmployeeEmails, hrEmail \in Emails :
        AffiliationCount(employeeEmail, hrEmail) <= 1

\* C4 witness: a pair linked by a direct assignment and by an approval has one
\* Affiliation
C4_Witness ==
    \E l1 \in linked, l2 \in linked :
        /\ l1.op = "assignDirectly" /\ l2.op = "approveRequest"
        /\ l1.employeeEmail = l2.employeeEmail
        /\ l1.hrEmail = l2.hrEmail
        /\ AffiliationCount(l1.employeeEmail, l1.hrEmail) = 1

\* C5: each Account's currentEmployees equals the number of distinct employees
\* that have an active Affiliation to it.
C5_CurrentEmployeesIsAffiliated ==
    \A email \in DOMAIN usersCollection :
        usersCollection[email].currentEmployees
            = Cardinality(ActiveEmployees(email))

\* C5 witness: an HR with two affiliated employees after three successful
\* approve/assign calls, one of them an approval
C5_Witness ==
    \E hrEmail \in HrEmails :
        /\ usersCollection[hrEmail].currentEmployees = 2
        /\ successCount[hrEmail] = 3
        /\ \E l \in linked : l.op = "approveRequest" /\ l.hrEmail = hrEmail

\* C6: while no Payment is recorded for an HR, its packageLimit equals its
\* initial packageLimit minus the number of successful approveRequest and
\* assignDirectly calls charged to it.
C6_LimitIsInitialMinusSuccesses ==
    \A hrEmail \in HrEmails :
        (\A d \in BagToSet(paymentsCollection) : d.hrEmail # hrEmail)
        => usersCollection[hrEmail].packageLimit
               = InitialPackageLimit[hrEmail] - successCount[hrEmail]

\* C6 witness: an HR without payment used all its seats, by both kinds of
\* call, and was then refused
C6_Witness ==
    /\ res.message \in LimitReachedMessages
    /\ \E hrEmail \in HrEmails :
           /\ \A d \in BagToSet(paymentsCollection) : d.hrEmail # hrEmail
           /\ successCount[hrEmail] = InitialPackageLimit[hrEmail]
           /\ successCount[hrEmail] >= 2
           /\ usersCollection[hrEmail].packageLimit = 0
           /\ \E l1 \in linked, l2 \in linked :
                  /\ l1.hrEmail = hrEmail /\ l2.hrEmail = hrEmail
                  /\ l1.op = "assignDirectly" /\ l2.op = "approveRequest"

\* C7: successful linking calls for one (employee, HR) pair raise the HR's
\* currentEmployees by 1 in total however many they are, and leave one
\* Affiliation for the pair: currentEmployees counts the linked employees,
\* not the links.
C7_SecondLinkDoesNotCount ==
    /\ \A hrEmail \in HrEmails :
           usersCollection[hrEmail].currentEmployees
               = Cardinality({e \in EmployeeEmails : Links(e, hrEmail) # {}})
    /\ \A hrEmail \in HrEmails, e \in EmployeeEmails :
           Links(e, hrEmail) # {} => AffiliationCount(e, hrEmail) = 1

\* C7 witness: a pair linked twice on two different assets, once by each
\* operation, with currentEmployees 1
C7_Witness ==
    \E l1 \in linked, l2 \in linked :
        /\ l1.employeeEmail = l2.employeeEmail
        /\ l1.hrEmail = l2.hrEmail
        /\ l1.assetId # l2.assetId
        /\ l1.op = "assignDirectly" /\ l2.op = "approveRequest"
        /\ usersCollection[l1.hrEmail].currentEmployees = 1

\* C8 (as claimed): at most one Request document exists per (asset,
\* requester) pair, the duplicate being refused whatever the status of the
\* first.
C8_OneRequestPerPair ==
    \A assetId \in AssetIds, requesterEmail \in EmployeeEmails :
        Cardinality({i \in 1..Len(requestsCollection) :
                        /\ requestsCollection[i].assetId = assetId
                        /\ requestsCollection[i].requesterEmail = requesterEmail})
            <= 1

\* C9 (as claimed): every approveRequest of an HR on a Request whose
\* requestStatus is approved is answered 409 already-approved and changes no
\* collection.
C9_ApprovedIsRefused ==
    [][\A tokenEmail \in HrRouteTokenEmails, id \in RequestIds(MaxRequests),
          body \in ApproveBodies :
           (/\ res'.op = "approveRequest"
            /\ verifyHR(tokenEmail)
            /\ id \in 1..Len(requestsCollection)
            /\ requestsCollection[id].requestStatus = "approved"
            /\ ApproveRequest(tokenEmail, id, body))
           => /\ res'.status = 409
              /\ res'.message = "Request Already Approved"
              /\ UNCHANGED collections]_vars

\* the seats the recorded Payments grant an account
RECURSIVE SumEmployeeLimit(_, _)
SumEmployeeLimit(docs, coll) ==
    IF docs = {} THEN 0
    ELSE LET d == CHOOSE x \in docs : TRUE
         IN  d.employeeLimit * coll[d] + SumEmployeeLimit(docs \ {d}, coll)

Credited(hrEmail) ==
    SumEmployeeLimit({d \in BagToSet(paymentsCollection) : d.hrEmail = hrEmail},
                     paymentsCollection)

PaymentCount(transitionId) ==
    CountDocuments(paymentsCollection, [transitionId |-> transitionId])

\* a session reconcilePayment records: paid, for a Package of the catalogue
Payable(sessionId) ==
    /\ sessionId \in DOMAIN StripeSessions
    /\ StripeSessions[sessionId].payment_status = "paid"
    /\ StripeSessions[sessionId].metadata.packageId \in DOMAIN packagesCollection

\* C10: reconcilePayment leaves exactly one Payment for a paid transaction id
\* however often it is called; each HR's packageLimit holds the seats of its
\* recorded Payments once each; and a replay answers with the existing receipt
\* and changes no collection.
C10_Recorded(sessionId) ==
    PaymentCount(StripeSessions[sessionId].payment_intent)' = 1

C10_Replayed ==
    /\ res'.status = 200
    /\ res'.message = "Payment already recorded"
    /\ UNCHANGED << collections, history >>

C10_CreditedExactlyOnce ==
    /\ \A sessionId \in DOMAIN StripeSessions :
           PaymentCount(StripeSessions[sessionId].payment_intent) <= 1
    /\ \A hrEmail \in HrEmails :
           usersCollection[hrEmail].packageLimit
               = InitialPackageLimit[hrEmail] - successCount[hrEmail]
                 + Credited(hrEmail)
    /\ \A tokenEmail \in HrRouteTokenEmails, sessionId \in SessionIds :
           (verifyHR(tokenEmail) /\ Payable(sessionId))
           => /\ ~ENABLED (/\ ReconcilePayment(tokenEmail, sessionId)
                           /\ ~C10_Recorded(sessionId))
              /\ PaymentCount(StripeSessions[sessionId].payment_intent) >= 1
                 => ~ENABLED (/\ ReconcilePayment(tokenEmail, sessionId)
                              /\ ~C10_Replayed)

\* C10 witness: a replay of a recorded transaction was answered with the
\* existing receipt, the HR holding the credited seats
C10_Witness ==
    /\ res.op = "reconcilePayment"
    /\ res.message = "Payment already recorded"
    /\ PaymentCount("pi1") = 1
    /\ PaymentCount("pi2") = 1
    /\ usersCollection["h1"].packageLimit
           = InitialPackageLimit["h1"] - successCount["h1"] + 3
    /\ successCount["h1"] >= 1

----------------------------------------------------------------------------
(* Claims on the request life cycle *)

\* what the claimed approval of request id leaves behind: the asset the
\* Request references is 1 lower and no other asset changed, the pair holds an
\* assigned Assignment and an Affiliation, the Request is approved and dated
C11_Approved(id) ==
    LET request == requestsCollection[id]
    IN  /\ assetsCollection'[request.assetId].availableQuantity
               = assetsCollection[request.assetId].availableQuantity - 1
        /\ \A other \in DOMAIN assetsCollection \ {request.assetId} :
               assetsCollection'[other] = assetsCollection[other]
        /\ AssignedCount(request.assetId, request.requesterEmail)' >= 1
        /\ AffiliationCount(request.requesterEmail, request.hrEmail)' >= 1
        /\ requestsCollection'[id].requestStatus = "approved"
        /\ requestsCollection'[id].approvalDate # "null"

\* C11 (as claimed): when an HR approves a pending Request of employee E for
\* asset A, the Request's HR holding packageLimit > 0 and (A, E) holding no
\* assigned Assignment, then for every body naming an asset of the inventory
\* the quantity of A is 1 lower and no other quantity changed, (A, E) holds an
\* assigned Assignment, (E, the Request's hrEmail) an Affiliation, and the
\* Request is approved with a non-null approvalDate.
C11_ApprovalTakesReferencedAsset ==
    [][\A tokenEmail \in HrRouteTokenEmails, id \in RequestIds(MaxRequests),
          body \in ApproveBodies :
           (/\ res'.op = "approveRequest"
            /\ verifyHR(tokenEmail)
            /\ id \in 1..Len(requestsCollection)
            /\ requestsCollection[id].requestStatus = "pending"
            /\ body.assetId \in DOMAIN assetsCollection
            /\ UsersFindOne(requestsCollection[id].hrEmail) # Null
            /\ UsersFindOne(requestsCollection[id].hrEmail).packageLimit > 0
            /\ AssignedCount(requestsCollection[id].assetId,
                             requestsCollection[id].requesterEmail) = 0
            /\ ApproveRequest(tokenEmail, id, body))
           => C11_Approved(id)]_vars

\* C12 (as claimed): rejectRequest on a pending Request sets requestStatus to
\* rejected for every body and changes nothing else; on a Request that is not
\* pending it answers 409 not-pending and changes nothing.
C12_RejectSetsRejected ==
    [][\A tokenEmail \in HrRouteTokenEmails, id \in RequestIds(MaxLedgerRequests),
          body \in RejectBodies :
           (/\ res'.op = "rejectRequest"
            /\ verifyHR(tokenEmail)
            /\ id \in 1..Len(requestsCollection)
            /\ RejectRequest(tokenEmail, id, body))
           => IF requestsCollection[id].requestStatus = "pending"
              THEN /\ requestsCollection' =
                          [requestsCollection EXCEPT
                              ![id].requestStatus = "rejected"]
                   /\ UNCHANGED << usersCollection, assetsCollection,
                                   assignedAssetsCollection,
                                   employeeAffiliationsCollection,
                                   paymentsCollection >>
              ELSE /\ res'.status = 409
                   /\ res'.message = "Already Processed"
                   /\ UNCHANGED collections]_vars

\* C13 (as claimed): a Request's requestStatus is always pending, approved or
\* rejected, and once it is approved or rejected no later approveRequest or
\* rejectRequest changes it.
C13_StatusIsTerminal ==
    [][\A id \in 1..Len(requestsCollection) :
           /\ requestsCollection'[id].requestStatus \in Statuses
           /\ requestsCollection[id].requestStatus \in {"approved", "rejected"}
              => requestsCollection'[id].requestStatus
                     = requestsCollection[id].requestStatus]_vars

----------------------------------------------------------------------------
(* The Account Store failing under the role middleware *)

\* the role-guarded operations
GuardedOps ==
    {"submitAssetRequest", "assignDirectly", "approveRequest", "rejectRequest",
     "reconcilePayment"}

\* usersCollection.findOne({ email }) of verifyEmployee / verifyHR rejects: the
\* catch block of the middleware answers and next() is never called
AccountLookupFails(op) ==
    /\ Respond(op, 500, "Internal Server Error")
    /\ UNCHANGED << inFlight, collections, history >>

LookupFails == \E op \in GuardedOps : AccountLookupFails(op)

NextGuard == Submit \/ Assign \/ Approve \/ Reject \/ Reconcile \/ LookupFails

SpecGuard == Init /\ [][NextGuard]_vars

\* an Account exists for the email and carries the role
HasRole(email, role) ==
    /\ email \in DOMAIN usersCollection
    /\ usersCollection[email].role = role

\* the call was let through when the caller holds the role, and otherwise was
\* answered 403 with every collection as before
C14_Guarded(email, role) ==
    IF HasRole(email, role)
    THEN res'.status # 403
    ELSE res'.status = 403 /\ UNCHANGED << collections, history >>

\* C14: a role-guarded operation runs its handler exactly when an Account
\* exists for the verified email and its role is the required one (hr for
\* assignDirectly, approveRequest, rejectRequest, reconcilePayment; employee for
\* submitAssetRequest); otherwise the caller gets 403 and no collection
\* changes; a failed Account lookup is answered 500, not 403, and changes
\* nothing.
C14_RoleGuard ==
    /\ \A tokenEmail \in TokenEmails, body \in SubmitBodies :
           ~ENABLED (/\ SubmitAssetRequest(tokenEmail, body, MaxRequests)
                     /\ ~C14_Guarded(tokenEmail, "employee"))
    /\ \A tokenEmail \in HrRouteTokenEmails, body \in AssignBodies :
           ~ENABLED (/\ AssignDirectly(tokenEmail, body)
                     /\ ~C14_Guarded(tokenEmail, "hr"))
    /\ \A tokenEmail \in HrRouteTokenEmails, id \in RequestIds(MaxRequests),
          body \in ApproveBodies :
           ~ENABLED (/\ ApproveRequest(tokenEmail, id, body)
                     /\ ~C14_Guarded(tokenEmail, "hr"))
    /\ \A tokenEmail \in HrRouteTokenEmails, id \in RequestIds(MaxRequests),
          body \in RejectBodies :
           ~ENABLED (/\ RejectRequest(tokenEmail, id, body)
                     /\ ~C14_Guarded(tokenEmail, "hr"))
    /\ \A tokenEmail \in HrRouteTokenEmails, sessionId \in SpecSessionIds :
           ~ENABLED (/\ ReconcilePayment(tokenEmail, sessionId)
                     /\ ~C14_Guarded(tokenEmail, "hr"))
    /\ \A op \in GuardedOps :
           ~ENABLED (/\ AccountLookupFails(op)
                     /\ ~(/\ res'.status = 500
                          /\ UNCHANGED << collections, history >>))

\* C14 witness: a caller who is not an HR was refused the approval of a
\* pending Request that an HR with free seats could have approved
C14_Witness ==
    /\ res.op = "approveRequest"
    /\ res.status = 403
    /\ \E id \in 1..Len(requestsCollection) :
           /\ requestsCollection[id].requestStatus = "pending"
           /\ usersCollection[requestsCollection[id].hrEmail].packageLimit > 0
           /\ AssignedCount(requestsCollection[id].assetId,
                            requestsCollection[id].requesterEmail) = 0

----------------------------------------------------------------------------
(* Claims on the error paths *)

\* the call was refused (404 not found, 409 conflict, or the 500 the handlers
\* answer when the asset or the HR account they dereference is missing) and
\* wrote something
C15_RefusedAfterWrite ==
    /\ res'.status \in {404, 409, 500}
    /\ ~UNCHANGED << collections, history >>

\* C15: every submitAssetRequest, assignDirectly, approveRequest or
\* rejectRequest call that ends in a business-rule or not-found rejection
\* performed no write: all collections are the same before and after the call.
C15_RejectionWroteNothing ==
    /\ \A tokenEmail \in TokenEmails, body \in SubmitBodies :
           ~ENABLED (/\ SubmitAssetRequest(tokenEmail, body, MaxRequests)
                     /\ C15_RefusedAfterWrite)
    /\ \A tokenEmail \in HrRouteTokenEmails, body \in AssignBodies :
           ~ENABLED (/\ AssignDirectly(tokenEmail, body)
                     /\ C15_RefusedAfterWrite)
    /\ \A tokenEmail \in HrRouteTokenEmails, id \in RequestIds(MaxRequests),
          body \in ApproveBodies :
           ~ENABLED (/\ ApproveRequest(tokenEmail, id, body)
                     /\ C15_RefusedAfterWrite)
    /\ \A tokenEmail \in HrRouteTokenEmails, id \in RequestIds(MaxRequests),
          body \in RejectBodies :
           ~ENABLED (/\ RejectRequest(tokenEmail, id, body)
                     /\ C15_RefusedAfterWrite)

\* C15 witness: a rejectRequest was refused as already processed after an
\* approval had handed out an asset
C15_Witness ==
    /\ res.op = "rejectRequest"
    /\ res.status = 409
    /\ \E l \in linked : l.op = "approveRequest"
    /\ \E id \in 1..Len(requestsCollection) :
           requestsCollection[id].requestStatus # "pending"

----------------------------------------------------------------------------
(* DELETE /asset/:id (deleteAsset) and the inventory shrinking under requests *)

DeleteAsset(tokenEmail, id) ==
    LET op == "deleteAsset"
    IN  /\ UNCHANGED << inFlight, usersCollection, requestsCollection,
                        assignedAssetsCollection,
                        employeeAffiliationsCollection, paymentsCollection,
                        history >>
        /\ IF ~verifyHR(tokenEmail)
           THEN Respond(op, 403, "Only HR actions") /\ UNCHANGED assetsCollection
           ELSE IF id \notin DOMAIN assetsCollection
           \* result.deletedCount === 0
           THEN Respond(op, 404, "Asset Not Found") /\ UNCHANGED assetsCollection
           ELSE /\ assetsCollection' =
                       [a \in DOMAIN assetsCollection \ {id} |-> assetsCollection[a]]
                /\ Respond(op, 200, "result")

Delete ==
    \E tokenEmail \in HrRouteTokenEmails, id \in BodyAssetIds :
        DeleteAsset(tokenEmail, id)

NextInventory == Submit \/ Approve \/ Delete

SpecInventory == Init /\ [][NextInventory]_vars

\* C16 (as claimed): approveRequest on a pending Request whose referenced
\* Asset was deleted after the request was filed is answered 404
\* asset-not-found and changes no collection.
C16_DeletedAssetIsNotFound ==
    [][\A tokenEmail \in HrRouteTokenEmails, id \in RequestIds(MaxRequests),
          body \in ApproveBodies :
           (/\ res'.op = "approveRequest"
            /\ verifyHR(tokenEmail)
            /\ id \in 1..Len(requestsCollection)
            /\ requestsCollection[id].requestStatus = "pending"
            /\ requestsCollection[id].assetId \notin DOMAIN assetsCollection
            /\ body.assetId = requestsCollection[id].assetId
            /\ ApproveRequest(tokenEmail, id, body))
           => /\ res'.status = 404
              /\ UNCHANGED collections]_vars

\* C17 (as claimed): assignDirectly for a fresh (employee, asset) pair naming
\* an hrEmail for which no Account exists is answered 404 hr-not-found and
\* creates no Assignment and no Affiliation.
C17_UnknownHrIsNotFound ==
    [][\A tokenEmail \in HrRouteTokenEmails, body \in AssignBodies :
           (/\ res'.op = "assignDirectly"
            /\ verifyHR(tokenEmail)
            /\ UsersFindOne(body.hrEmail) = Null
            /\ existingAssets(body.employeeEmail, body.assetId) = Null
            /\ AssignDirectly(tokenEmail, body))
           => /\ res'.status = 404
              /\ UNCHANGED << assignedAssetsCollection,
                              employeeAffiliationsCollection >>]_vars

----------------------------------------------------------------------------
(* Claims on package fulfilment *)

\* C18 (as claimed): when reconcilePayment processes a not-yet-recorded paid
\* session of an HR whose Package exists, it inserts one Payment and raises the
\* HR's packageLimit by the catalogue seat grant of that Package, whatever seat
\* count the session's metadata carries.
C18_CreditsCatalogGrant ==
    [][\A tokenEmail \in HrRouteTokenEmails, sessionId \in DOMAIN StripeSessions :
           LET session == StripeSessions[sessionId]
           IN  (/\ res'.op = "reconcilePayment"
                /\ verifyHR(tokenEmail)
                /\ Payable(sessionId)
                /\ PaymentCount(session.payment_intent) = 0
                /\ UsersFindOne(session.customer_email) # Null
                /\ ReconcilePayment(tokenEmail, sessionId))
               => /\ PaymentCount(session.payment_intent)' = 1
                  /\ usersCollection'[session.customer_email].packageLimit
                         = usersCollection[session.customer_email].packageLimit
                           + packagesCollection[session.metadata.packageId]
                                 .employeeLimit]_vars

\* C19 (as claimed): reconcilePayment for a session that is not paid, or whose
\* Package does not exist, returns a receipt and changes no collection.
C19_UnpaidReturnsReceipt ==
    [][\A tokenEmail \in HrRouteTokenEmails, sessionId \in DOMAIN StripeSessions :
           (/\ res'.op = "reconcilePayment"
            /\ verifyHR(tokenEmail)
            /\ ~Payable(sessionId)
            /\ ReconcilePayment(tokenEmail, sessionId))
           => /\ res'.status = 200
              /\ res'.message = "transitionId"
              /\ UNCHANGED collections]_vars

----------------------------------------------------------------------------
(* POST /payment-success running concurrently: every await of the handler is *)
(* one step, and the steps of the calls in flight interleave                 *)

\* the sessions the concurrent calls reconcile: two paid ones of HR h1 and an
\* unpaid one
ConcurrentSessionIds == {"cs1", "cs2", "cs3"}

SessionOf(call) == StripeSessions[inFlight[call].sessionId]

\* the call answers and leaves the server
Finish(call, status, message) ==
    /\ Respond("reconcilePayment", status, message)
    /\ inFlight' = [inFlight EXCEPT ![call] = Idle]

\* verifyHR lets the caller through, stripe resolves the session, and
\* const hr = await usersCollection.findOne(hrQuery)
ReconcileFindHr(call, tokenEmail, sessionId) ==
    /\ inFlight[call].pc = "idle"
    /\ verifyHR(tokenEmail)
    /\ sessionId \in DOMAIN StripeSessions
    /\ inFlight' = [inFlight EXCEPT ![call] =
                       [pc |-> "findPayment", op |-> "reconcilePayment",
                        sessionId |-> sessionId,
                        hr |-> UsersFindOne(
                                   StripeSessions[sessionId].customer_email)]]
    /\ UNCHANGED << collections, history, res >>

\* const packageData = await packagesCollection.findOne(...);
\* const existingPayment = await paymentsCollection.findOne(...), and the
\* branches up to the insert
ReconcileFindPayment(call) ==
    LET session == SessionOf(call)
        packageData == PackagesFindOne(session.metadata.packageId)
    IN  /\ inFlight[call].pc = "findPayment"
        /\ UNCHANGED << collections, history >>
        /\ IF session.metadata.packageId \notin PackageObjectIds
           THEN Finish(call, 500, "Internal Server Error")
           ELSE IF session.payment_status = "paid" /\ packageData # Null
           THEN IF existingPayment(session) # Null
                THEN Finish(call, 200, "Payment already recorded")
                ELSE /\ inFlight' = [inFlight EXCEPT ![call].pc = "insertPayment"]
                     /\ UNCHANGED res
           ELSE Finish(call, 200, "transitionId")

\* const result = await paymentsCollection.insertOne(orderInfo), and the
\* computation of increaseLimit from the account read at the start
ReconcileInsertPayment(call) ==
    /\ inFlight[call].pc = "insertPayment"
    /\ paymentsCollection' =
           InsertOne(paymentsCollection, orderInfo(SessionOf(call)))
    /\ UNCHANGED << usersCollection, assetsCollection, requestsCollection,
                    assignedAssetsCollection, employeeAffiliationsCollection,
                    history >>
    /\ IF inFlight[call].hr = Null
       THEN Finish(call, 500, "Internal Server Error")
       ELSE /\ inFlight' = [inFlight EXCEPT ![call].pc = "updateHr"]
            /\ UNCHANGED res

\* await usersCollection.updateOne(hrQuery, hrUpdate); return res.send(...)
ReconcileUpdateHr(call) ==
    /\ inFlight[call].pc = "updateHr"
    /\ usersCollection' =
           UsersUpdateOne(SessionOf(call).customer_email,
               [packageLimit |-> increaseLimit(inFlight[call].hr,
                                               SessionOf(call))])
    /\ UNCHANGED << assetsCollection, requestsCollection,
                    assignedAssetsCollection, employeeAffiliationsCollection,
                    paymentsCollection, history >>
    /\ Finish(call, 200, "orderId")

FindHr ==
    \E call \in Calls, sessionId \in ConcurrentSessionIds :
        ReconcileFindHr(call, "h1", sessionId)

FindPayment == \E call \in Calls : ReconcileFindPayment(call)

InsertPayment == \E call \in Calls : ReconcileInsertPayment(call)

UpdateHr == \E call \in Calls : ReconcileUpdateHr(call)

NextConcurrentPayment == FindHr \/ FindPayment \/ InsertPayment \/ UpdateHr

SpecConcurrentPayment == Init /\ [][NextConcurrentPayment]_vars

\* the seats of the distinct transactions recorded for an account
CreditedOnce(hrEmail) ==
    LET docs == {d \in BagToSet(paymentsCollection) : d.hrEmail = hrEmail}
    IN  SumEmployeeLimit(docs, [d \in docs |-> 1])

\* C20 (as claimed): under any interleaving of concurrent reconcilePayment
\* calls at most one Payment exists per external transaction id, and each
\* HR's packageLimit is credited at most once per transaction id.
C20_OnePaymentPerTransaction ==
    /\ \A sessionId \in DOMAIN StripeSessions :
           PaymentCount(StripeSessions[sessionId].payment_intent) <= 1
    /\ \A hrEmail \in HrEmails :
           usersCollection[hrEmail].packageLimit
               <= InitialPackageLimit[hrEmail] + CreditedOnce(hrEmail)

----------------------------------------------------------------------------
(* POST /assigned-assets and PATCH /approve-employee-requests/:id running    *)
(* concurrently: every await of a handler is one step                        *)

\* the call answers and leaves the server
FinishCall(call, status, message) ==
    /\ Respond(inFlight[call].op, status, message)
    /\ inFlight' = [inFlight EXCEPT ![call] = Idle]

\* the call moves on to its next await
Goto(call, pc) ==
    /\ inFlight' = [inFlight EXCEPT ![call].pc = pc]
    /\ UNCHANGED res

\* verifyHR lets the caller through, and
\* const existingAssets = await assignedAssetsCollection.findOne(...)
AssignFindExisting(call, tokenEmail, body) ==
    /\ inFlight[call].pc = "idle"
    /\ verifyHR(tokenEmail)
    /\ UNCHANGED << collections, history >>
    /\ IF existingAssets(body.employeeEmail, body.assetId) # Null
       THEN /\ Respond("assignDirectly", 409, "Asset Already Assigned")
            /\ UNCHANGED inFlight
       ELSE /\ inFlight' = [inFlight EXCEPT ![call] =
                               [pc |-> "assign.findAffiliation",
                                op |-> "assignDirectly", body |-> body]]
            /\ UNCHANGED res

\* const existingEmployeeAffiliation =
\*     await employeeAffiliationsCollection.findOne({ employeeEmail, hrEmail })
AssignFindAffiliation(call) ==
    LET body == inFlight[call].body
    IN  /\ inFlight[call].pc = "assign.findAffiliation"
        /\ UNCHANGED << collections, history, res >>
        /\ inFlight' = [inFlight EXCEPT ![call] =
               [pc |-> "assign.findHr", op |-> "assignDirectly", body |-> body,
                affiliation |-> existingEmployeeAffiliation(body.employeeEmail,
                                                            body.hrEmail)]]

\* const hr = await usersCollection.findOne({ email: hrEmail }), the limit
\* check, and updateHR computed from the account as read here
AssignFindHr(call) ==
    LET body == inFlight[call].body
        hr == UsersFindOne(body.hrEmail)
    IN  /\ inFlight[call].pc = "assign.findHr"
        /\ UNCHANGED << collections, history >>
        /\ IF hr = Null
           THEN FinishCall(call, 500, "Internal Server Error")
           ELSE IF LimitReached(hr)
           THEN FinishCall(call, 409, "Your package limit has been reached")
           ELSE /\ inFlight' = [inFlight EXCEPT ![call] =
                       [pc |-> "assign.updateHr", op |-> "assignDirectly",
                        body |-> body,
                        affiliation |-> inFlight[call].affiliation,
                        updateHR |-> updateHR(hr, inFlight[call].affiliation)]]
                /\ UNCHANGED res

\* await usersCollection.updateOne({ email: hrEmail }, updateHR)
AssignUpdateHr(call) ==
    /\ inFlight[call].pc = "assign.updateHr"
    /\ usersCollection' =
           UsersUpdateOne(inFlight[call].body.hrEmail, inFlight[call].updateHR)
    /\ UNCHANGED << assetsCollection, requestsCollection,
                    assignedAssetsCollection, employeeAffiliationsCollection,
                    paymentsCollection, history >>
    /\ Goto(call, "assign.insertAssignment")

\* const result = await assignedAssetsCollection.insertOne(assignmentData);
\* without a new affiliation to insert the handler answers 201
AssignInsertAssignment(call) ==
    LET body == inFlight[call].body
    IN  /\ inFlight[call].pc = "assign.insertAssignment"
        /\ assignedAssetsCollection' =
               InsertOne(assignedAssetsCollection, assignmentData(body))
        /\ UNCHANGED << usersCollection, assetsCollection, requestsCollection,
                        employeeAffiliationsCollection, paymentsCollection >>
        /\ IF inFlight[call].affiliation = Null
           THEN Goto(call, "assign.insertAffiliation") /\ UNCHANGED history
           ELSE /\ FinishCall(call, 201, "result")
                /\ RecordSuccess("assignDirectly", body.employeeEmail,
                                 body.hrEmail, body.assetId)

\* await employeeAffiliationsCollection.insertOne(employeeAffiliationData);
\* res.status(201).send(result)
AssignInsertAffiliation(call) ==
    LET body == inFlight[call].body
    IN  /\ inFlight[call].pc = "assign.insertAffiliation"
        /\ employeeAffiliationsCollection' =
               InsertOne(employeeAffiliationsCollection,
                         employeeAffiliationData(body.employeeEmail,
                                                 body.hrEmail))
        /\ UNCHANGED << usersCollection, assetsCollection, requestsCollection,
                        assignedAssetsCollection, paymentsCollection >>
        /\ FinishCall(call, 201, "result")
        /\ RecordSuccess("assignDirectly", body.employeeEmail, body.hrEmail,
                         body.assetId)

\* verifyHR lets the caller through, and
\* const asset = await assetsCollection.findOne(assetQuery), with
\* latestQuantity computed from the asset as read here
ApproveFindAsset(call, tokenEmail, id, body) ==
    LET asset == AssetsFindOne(body.assetId)
    IN  /\ inFlight[call].pc = "idle"
        /\ verifyHR(tokenEmail)
        /\ UNCHANGED << collections, history >>
        /\ IF asset = Null
           THEN /\ Respond("approveRequest", 500, "Internal Server Error")
                /\ UNCHANGED inFlight
           ELSE /\ inFlight' = [inFlight EXCEPT ![call] =
                       [pc |-> "approve.findRequest", op |-> "approveRequest",
                        id |-> id, body |-> body,
                        latestQuantity |-> latestQuantity(asset)]]
                /\ UNCHANGED res

\* const request = await requestsCollection.findOne(query)
ApproveFindRequest(call) ==
    /\ inFlight[call].pc = "approve.findRequest"
    /\ UNCHANGED << collections, history, res >>
    /\ inFlight' = [inFlight EXCEPT ![call] =
           [pc |-> "approve.findHr", op |-> "approveRequest",
            id |-> inFlight[call].id, body |-> inFlight[call].body,
            latestQuantity |-> inFlight[call].latestQuantity,
            request |-> RequestsFindOneById(inFlight[call].id)]]

\* const hr = await usersCollection.findOne({ email: request?.hrEmail }), and
\* the checks on the request
ApproveFindHr(call) ==
    LET request == inFlight[call].request
    IN  /\ inFlight[call].pc = "approve.findHr"
        /\ UNCHANGED << collections, history >>
        /\ IF request = Null
           THEN FinishCall(call, 404, "Request Not Found")
           ELSE IF AlreadyApproved(request)
           THEN FinishCall(call, 409, "Request Already Approved")
           ELSE /\ inFlight' = [inFlight EXCEPT ![call] =
                       [pc |-> "approve.findAssigned", op |-> "approveRequest",
                        id |-> inFlight[call].id, body |-> inFlight[call].body,
                        latestQuantity |-> inFlight[call].latestQuantity,
                        request |-> request,
                        hr |-> UsersFindOne(request.hrEmail)]]
                /\ UNCHANGED res

\* const existingAssignedAssetCollection =
\*     await assignedAssetsCollection.findOne({ assetId, employeeEmail, status })
ApproveFindAssigned(call) ==
    /\ inFlight[call].pc = "approve.findAssigned"
    /\ UNCHANGED << collections, history >>
    /\ IF existingAssignedAssetCollection(inFlight[call].body.assetId,
                                          inFlight[call].request.requesterEmail)
              # Null
       THEN FinishCall(call, 409, "Already Assigned")
       ELSE Goto(call, "approve.findAffiliation")

\* const existingEmployeeAffiliation =
\*     await employeeAffiliationsCollection.findOne(...), updateHR computed
\* from the account read before, and the limit check
ApproveFindAffiliation(call) ==
    LET request == inFlight[call].request
        hr == inFlight[call].hr
        affiliation == existingEmployeeAffiliation(request.requesterEmail,
                                                   request.hrEmail)
    IN  /\ inFlight[call].pc = "approve.findAffiliation"
        /\ UNCHANGED << collections, history >>
        /\ IF hr = Null
           THEN FinishCall(call, 500, "Internal Server Error")
           ELSE IF LimitReached(hr)
           THEN FinishCall(call, 409, "Your Package has been Finished")
           ELSE /\ inFlight' = [inFlight EXCEPT ![call] =
                       [pc |-> "approve.updateHr", op |-> "approveRequest",
                        id |-> inFlight[call].id, body |-> inFlight[call].body,
                        latestQuantity |-> inFlight[call].latestQuantity,
                        request |-> request,
                        affiliation |-> affiliation,
                        updateHR |-> updateHR(hr, affiliation)]]
                /\ UNCHANGED res

\* await usersCollection.updateOne({ email: hr?.email }, updateHR)
ApproveUpdateHr(call) ==
    /\ inFlight[call].pc = "approve.updateHr"
    /\ usersCollection' =
           UsersUpdateOne(inFlight[call].request.hrEmail,
                          inFlight[call].updateHR)
    /\ UNCHANGED << assetsCollection, requestsCollection,
                    assignedAssetsCollection, employeeAffiliationsCollection,
                    paymentsCollection, history >>
    /\ Goto(call, "approve.updateAsset")

\* await assetsCollection.updateOne(assetQuery, assetUpdate): no match, no
\* write
ApproveUpdateAsset(call) ==
    LET assetId == inFlight[call].body.assetId
    IN  /\ inFlight[call].pc = "approve.updateAsset"
        /\ assetsCollection' =
               IF assetId \in DOMAIN assetsCollection
               THEN [assetsCollection EXCEPT
                        ![assetId].availableQuantity =
                            inFlight[call].latestQuantity]
               ELSE assetsCollection
        /\ UNCHANGED << usersCollection, requestsCollection,
                        assignedAssetsCollection,
                        employeeAffiliationsCollection, paymentsCollection,
                        history >>
        /\ Goto(call, "approve.insertAssignment")

\* await assignedAssetsCollection.insertOne(assignedAssetListData)
ApproveInsertAssignment(call) ==
    /\ inFlight[call].pc = "approve.insertAssignment"
    /\ assignedAssetsCollection' =
           InsertOne(assignedAssetsCollection,
                     assignedAssetListData(inFlight[call].body.assetId,
                                           inFlight[call].request))
    /\ UNCHANGED << usersCollection, assetsCollection, requestsCollection,
                    employeeAffiliationsCollection, paymentsCollection,
                    history >>
    /\ Goto(call, "approve.updateRequest")

\* const result = await requestsCollection.updateOne(query, update); without
\* a new affiliation to insert the handler answers
ApproveUpdateRequest(call) ==
    LET request == inFlight[call].request
        id == inFlight[call].id
    IN  /\ inFlight[call].pc = "approve.updateRequest"
        /\ requestsCollection' =
               [requestsCollection EXCEPT
                   ![id] = Set(@, [requestStatus |->
                                       inFlight[call].body.requestStatus,
                                   approvalDate |-> "now"])]
        /\ UNCHANGED << usersCollection, assetsCollection,
                        assignedAssetsCollection,
                        employeeAffiliationsCollection, paymentsCollection >>
        /\ IF inFlight[call].affiliation = Null
           THEN Goto(call, "approve.insertAffiliation") /\ UNCHANGED history
           ELSE /\ FinishCall(call, 200, "result")
                /\ RecordSuccess("approveRequest", request.requesterEmail,
                                 request.hrEmail, inFlight[call].body.assetId)

\* await employeeAffiliationsCollection.insertOne(employeeAffiliationsListData);
\* res.send(result)
ApproveInsertAffiliation(call) ==
    LET request == inFlight[call].request
    IN  /\ inFlight[call].pc = "approve.insertAffiliation"
        /\ employeeAffiliationsCollection' =
               InsertOne(employeeAffiliationsCollection,
                         employeeAffiliationData(request.requesterEmail,
                                                 request.hrEmail))
        /\ UNCHANGED << usersCollection, assetsCollection, requestsCollection,
                        assignedAssetsCollection, paymentsCollection >>
        /\ FinishCall(call, 200, "result")
        /\ RecordSuccess("approveRequest", request.requesterEmail,
                         request.hrEmail, inFlight[call].body.assetId)

\* the inbound requests of the concurrent workflow: employee e1 asks h2 for
\* asset a1, an HR assigns an asset to e1 on h2's account, an HR approves
\* request 1 for asset a1
ConcurrentSubmitBody ==
    [assetId |-> "a1", requesterEmail |-> "e1", hrEmail |-> "h2"]

ConcurrentAssignBodies ==
    [assetId : AssetIds, employeeEmail : {"e1"}, hrEmail : {"h2"},
     status : {"assigned"}]

ConcurrentApproveBody == [requestStatus |-> "approved", assetId |-> "a1"]

SubmitOne == SubmitAssetRequest("e1", ConcurrentSubmitBody, MaxRequests)

BeginAssign ==
    \E call \in Calls, body \in ConcurrentAssignBodies :
        AssignFindExisting(call, "h1", body)

AssignAffiliationRead == \E call \in Calls : AssignFindAffiliation(call)

AssignHrRead == \E call \in Calls : AssignFindHr(call)

AssignHrWrite == \E call \in Calls : AssignUpdateHr(call)

AssignAssignmentWrite == \E call \in Calls : AssignInsertAssignment(call)

AssignAffiliationWrite == \E call \in Calls : AssignInsertAffiliation(call)

AssignSteps ==
    \/ AssignAffiliationRead
    \/ AssignHrRead
    \/ AssignHrWrite
    \/ AssignAssignmentWrite
    \/ AssignAffiliationWrite

BeginApprove ==
    \E call \in Calls :
        ApproveFindAsset(call, "h1", 1, ConcurrentApproveBody)

ApproveRequestRead == \E call \in Calls : ApproveFindRequest(call)

ApproveHrRead == \E call \in Calls : ApproveFindHr(call)

ApproveAssignedRead == \E call \in Calls : ApproveFindAssigned(call)

ApproveAffiliationRead == \E call \in Calls : ApproveFindAffiliation(call)

ApproveHrWrite == \E call \in Calls : ApproveUpdateHr(call)

ApproveAssetWrite == \E call \in Calls : ApproveUpdateAsset(call)

ApproveAssignmentWrite == \E call \in Calls : ApproveInsertAssignment(call)

ApproveRequestWrite == \E call \in Calls : ApproveUpdateRequest(call)

ApproveAffiliationWrite == \E call \in Calls : ApproveInsertAffiliation(call)

ApproveSteps ==
    \/ ApproveRequestRead
    \/ ApproveHrRead
    \/ ApproveAssignedRead
    \/ ApproveAffiliationRead
    \/ ApproveHrWrite
    \/ ApproveAssetWrite
    \/ ApproveAssignmentWrite
    \/ ApproveRequestWrite
    \/ ApproveAffiliationWrite

NextConcurrentWorkflow ==
    SubmitOne \/ BeginAssign \/ AssignSteps \/ BeginApprove \/ ApproveSteps

SpecConcurrentWorkflow == Init /\ [][NextConcurrentWorkflow]_vars

\* no handler is between two awaits
Quiescent == \A call \in Calls : inFlight[call].pc = "idle"

\* C21 (as claimed): the successful approve/assign calls charged to an HR
\* never exceed the seats the account had, and once every call has answered
\* packageLimit is the initial value minus the number of successes.
C21_SeatsNeverOversold ==
    \A hrEmail \in HrEmails :
        /\ successCount[hrEmail] <= InitialPackageLimit[hrEmail]
        /\ Quiescent =>
               usersCollection[hrEmail].packageLimit
                   = InitialPackageLimit[hrEmail] - successCount[hrEmail]

\* C22 (as claimed): at most one assigned Assignment exists per (asset,
\* employee), and the approvals of request 1 together take one unit of the
\* asset's quantity.
C22_OneAssignmentPerPair ==
    /\ \A assetId \in AssetIds, employeeEmail \in EmployeeEmails :
           AssignedCount(assetId, employeeEmail) <= 1
    /\ assetsCollection["a1"].availableQuantity >= MaxQuantity - 1

\* C23 (as claimed): however the calls that link a pair interleave, at most
\* one Affiliation exists for the pair, and once every call has answered
\* currentEmployees is the number of linked employees.
C23_OneAffiliationPerPair ==
    /\ \A employeeEmail \in EmployeeEmails, hrEmail \in HrEmails :
           AffiliationCount(employeeEmail, hrEmail) <= 1
    /\ Quiescent =>
           \A hrEmail \in HrEmails :
               usersCollection[hrEmail].currentEmployees
                   = Cardinality(ActiveEmployees(hrEmail))

----------------------------------------------------------------------------
(* DELETE /my-employees/:email *)

\* employeeAffiliationsCollection.deleteOne({ employeeEmail }): the
\* affiliation documents of the employee, whichever HR they name
AffiliationsOf(employeeEmail) ==
    {d \in BagToSet(employeeAffiliationsCollection) :
        Matches(d, [employeeEmail |-> employeeEmail])}

\* deleteOne removes one matching document, the one the store finds first;
\* the handler answers with the store's result whether or not one matched
RemoveEmployee(tokenEmail, employeeEmail) ==
    /\ UNCHANGED << inFlight, usersCollection, assetsCollection,
                    requestsCollection, assignedAssetsCollection,
                    paymentsCollection, history >>
    /\ IF ~verifyHR(tokenEmail)
       THEN /\ Respond("removeEmployee", 403, "Only HR actions")
            /\ UNCHANGED employeeAffiliationsCollection
       ELSE /\ Respond("removeEmployee", 200, "result")
            /\ IF AffiliationsOf(employeeEmail) = {}
               THEN UNCHANGED employeeAffiliationsCollection
               ELSE \E d \in AffiliationsOf(employeeEmail) :
                        employeeAffiliationsCollection' =
                            employeeAffiliationsCollection (-) SetToBag({d})

Remove ==
    \E tokenEmail \in HrRouteTokenEmails, employeeEmail \in EmployeeEmails :
        RemoveEmployee(tokenEmail, employeeEmail)

NextRoster == Submit \/ Assign \/ Approve \/ Remove

SpecRoster == Init /\ [][NextRoster]_vars

\* C24 (as claimed): over any sequence of assignDirectly, approveRequest and
\* DELETE /my-employees/:email calls, a successful call that links an
\* (employee, HR) pair increments the HR's currentEmployees only when no
\* earlier call linked that pair.
C24_IncrementedOncePerPair ==
    [][\A l \in linked' \ linked :
          usersCollection'[l.hrEmail].currentEmployees
              > usersCollection[l.hrEmail].currentEmployees
          => Links(l.employeeEmail, l.hrEmail) = {}]_vars

----------------------------------------------------------------------------
(* PATCH /approve-employee-requests/:id when a write to the store fails *)

\* the positions at which the handler awaits a write
ApproveWritePcs ==
    {"approve.updateHr", "approve.updateAsset", "approve.insertAssignment",
     "approve.updateRequest", "approve.insertAffiliation"}

\* the awaited write rejects: nothing is written, the catch block answers
ApproveWriteFails(call) ==
    /\ inFlight[call].pc \in ApproveWritePcs
    /\ UNCHANGED << collections, history >>
    /\ FinishCall(call, 500, "Internal Server Error")

WriteFails == \E call \in Calls : ApproveWriteFails(call)

\* employee e1 asks either HR for asset a1
SubmitToAnyHr ==
    \E hrEmail \in HrEmails :
        SubmitAssetRequest("e1", [assetId |-> "a1", requesterEmail |-> "e1",
                                  hrEmail |-> hrEmail], MaxRequests)

\* the approval is called, and called again, while no other call is running
BeginApproveAlone == Quiescent /\ BeginApprove

NextStoreFailure ==
    SubmitToAnyHr \/ BeginApproveAlone \/ ApproveSteps \/ WriteFails

SpecStoreFailure == Init /\ [][NextStoreFailure]_vars

\* C25 (as claimed): when a write of approveRequest fails the call leaves
\* all of its effects or none, so after any sequence of failed and retried
\* approvals each HR's packageLimit, the asset's availableQuantity and the
\* Assignments account for the successful approvals only.
C25_AllOrNothing ==
    Quiescent =>
        /\ \A hrEmail \in HrEmails :
               usersCollection[hrEmail].packageLimit
                   = InitialPackageLimit[hrEmail] - successCount[hrEmail]
        /\ BagCardinality(assignedAssetsCollection)
               = successCount["h1"] + successCount["h2"]
        /\ assetsCollection["a1"].availableQuantity
               = MaxQuantity - BagCardinality(assignedAssetsCollection)

----------------------------------------------------------------------------
(* POST /asset-requests step by step, with a store that may fail *)

\* the calls a handler is running for
Running == {call \in Calls : inFlight[call].pc # "idle"}

\* verifyEmployee lets the caller through and the handler starts; the ledger
\* bound counts the calls that may still insert
SubmitBegin(call, tokenEmail, body) ==
    /\ inFlight[call].pc = "idle"
    /\ UNCHANGED << collections, history >>
    /\ IF ~verifyEmployee(tokenEmail)
       THEN /\ Respond("submitAssetRequest", 403, "Only employee actions")
            /\ UNCHANGED inFlight
       ELSE /\ Len(requestsCollection) + Cardinality(Running)
                  < MaxLedgerRequests
            /\ inFlight' = [inFlight EXCEPT ![call] =
                   [pc |-> "submit.findExisting", op |-> "submitAssetRequest",
                    tokenEmail |-> tokenEmail, body |-> body]]
            /\ UNCHANGED res

\* const existingRequest = await requestsCollection.findOne(...)
SubmitFindExisting(call) ==
    /\ inFlight[call].pc = "submit.findExisting"
    /\ UNCHANGED << collections, history >>
    /\ IF existingRequest(inFlight[call].body.assetId,
                          inFlight[call].tokenEmail) # Null
       THEN FinishCall(call, 409, "Already Requested")
       ELSE Goto(call, "submit.insert")

\* const result = await requestsCollection.insertOne(requestData);
\* res.status(201).send(result)
SubmitInsert(call) ==
    /\ inFlight[call].pc = "submit.insert"
    /\ requestsCollection' =
           Append(requestsCollection, requestData(inFlight[call].body))
    /\ UNCHANGED << usersCollection, assetsCollection,
                    assignedAssetsCollection, employeeAffiliationsCollection,
                    paymentsCollection, history >>
    /\ FinishCall(call, 201, "result")

\* the awaited store access rejects and the catch block runs
\* req.status(500): req has no status function, so the catch block throws
\* and the handler's promise rejects. What happens then depends on the
\* Express version installed: the rejection is handled by nobody and no
\* response is ever sent, or the router passes it to the default error
\* handler, which answers 500.
SubmitStoreFails(call) ==
    /\ inFlight[call].pc \in {"submit.findExisting", "submit.insert"}
    /\ UNCHANGED << collections, history >>
    /\ \/ /\ inFlight' = [inFlight EXCEPT ![call].pc = "submit.noResponse"]
          /\ UNCHANGED res
       \/ FinishCall(call, 500, "req.status is not a function")

\* the steps the event loop takes for one call once its promise settles
SubmitStep(call) ==
    SubmitFindExisting(call) \/ SubmitInsert(call) \/ SubmitStoreFails(call)

BeginSubmit ==
    \E call \in Calls, tokenEmail \in TokenEmails, body \in SubmitBodies :
        SubmitBegin(call, tokenEmail, body)

SubmitSteps == \E call \in Calls : SubmitStep(call)

NextResponses == BeginSubmit \/ SubmitSteps

\* every settled promise is eventually resumed by the event loop
SpecResponses ==
    /\ Init
    /\ [][NextResponses]_vars
    /\ \A call \in Calls : WF_vars(SubmitStep(call))

\* C26 (as claimed): every call a handler is running for is eventually
\* answered, store failure or not.
C26_EveryCallIsAnswered ==
    \A call \in Calls :
        (inFlight[call].pc # "idle") ~> (inFlight[call].pc = "idle")

----------------------------------------------------------------------------
(* POST /payment-success and POST /assigned-assets on the same account *)

\* a handler of the operation is between two awaits
OpRunning(op) ==
    \E call \in Calls :
        inFlight[call].pc # "idle" /\ inFlight[call].op = op

\* assignments charged to h1, the account the sessions credit
ChargeBodies ==
    [assetId : AssetIds, employeeEmail : {"e1"}, hrEmail : {"h1"},
     status : {"assigned"}]

\* one payment call and one assignment call at a time, the two side by side
BeginCredit == ~OpRunning("reconcilePayment") /\ FindHr

BeginCharge ==
    /\ ~OpRunning("assignDirectly")
    /\ \E call \in Calls, body \in ChargeBodies :
           AssignFindExisting(call, "h1", body)

NextConcurrentCredit ==
    \/ BeginCredit
    \/ FindPayment
    \/ InsertPayment
    \/ UpdateHr
    \/ BeginCharge
    \/ AssignSteps

SpecConcurrentCredit == Init /\ [][NextConcurrentCredit]_vars

\* C27 (as claimed): a payment credit and an assignment on the same HR that
\* overlap both take effect: once both have answered, packageLimit is the
\* initial value plus the seats of the recorded payments minus the
\* successful assignments.
C27_NoLostUpdate ==
    Quiescent =>
        usersCollection["h1"].packageLimit
            = InitialPackageLimit["h1"] + CreditedOnce("h1")
                  - successCount["h1"]

----------------------------------------------------------------------------
(* POST /payment-success when the update of the account fails, and the
   client calls again *)

\* await usersCollection.updateOne(hrQuery, hrUpdate) rejects: the Payment is
\* already inserted, the catch block answers
ReconcileUpdateFails(call) ==
    /\ inFlight[call].pc = "updateHr"
    /\ UNCHANGED << collections, history >>
    /\ Finish(call, 500, "Internal Server Error")

UpdateFails == \E call \in Calls : ReconcileUpdateFails(call)

NextPaymentRetry ==
    BeginCredit \/ FindPayment \/ InsertPayment \/ UpdateHr \/ UpdateFails

SpecPaymentRetry == Init /\ [][NextPaymentRetry]_vars

\* the receipts reconcilePayment answers for a recorded payment
RecordedReceipts == {"orderId", "Payment already recorded"}

\* C28 (as claimed): when reconcilePayment answers a receipt for a paid
\* session with an existing Package, the customer's packageLimit holds that
\* session's seats on top of the initial value, also when the call replays
\* an attempt that failed after the Payment was inserted.
C28_ReceiptMeansCredited ==
    [][\A call \in Calls :
          (/\ inFlight[call].pc # "idle"
           /\ inFlight'[call].pc = "idle"
           /\ Payable(inFlight[call].sessionId)
           /\ res'.op = "reconcilePayment"
           /\ res'.status = 200
           /\ res'.message \in RecordedReceipts)
          => usersCollection'[SessionOf(call).customer_email].packageLimit
                 >= InitialPackageLimit[SessionOf(call).customer_email]
                        + SessionOf(call).metadata.employeeLimit]_vars

====
